---------------------------- MODULE Spec2Model ----------------------------
(***************************************************************************)
(* The agent execution loop of nextjs-agent-cli (src/src/agent/agent.ts,   *)
(* class Agent, second definition in the file, lines 440-865) together     *)
(* with the conversation summarizer (src/src/agent/summarizer.ts).         *)
(*                                                                         *)
(* Strings are kept as atomic values in the state.  Where the code looks   *)
(* inside a string (toUpperCase, toLowerCase, includes) the string is      *)
(* expanded to its sequence of characters with Chars.  A text built by a   *)
(* template literal is the sequence of its segments.                       *)
(***************************************************************************)
EXTENDS Naturals, Integers, Sequences, FiniteSets, TLC

\* ------------------------------------------------------------------------
\* Program constants
\* ------------------------------------------------------------------------
MAX_API_RETRIES == 5
INITIAL_RETRY_DELAY_MS == 2000
MAX_CONTEXT_TOKENS == 1000000
\* COMPRESSION_THRESHOLD is 0.7, kept as tenths
COMPRESSION_THRESHOLD_TENTHS == 7
KEEP_RECENT_MESSAGES == 10
MAX_EMPTY_RESPONSES == 3

\* ------------------------------------------------------------------------
\* Bounds of the model
\* ------------------------------------------------------------------------
\* config.maxIterations of the run with one start() and every response
DeepIterations == 3
\* config.maxIterations of the runs with several start()/chat() calls
WideIterations == 1
\* number of start()/chat() calls of those runs
WideSessions == 2
\* config.maxIterations and calls of the runs that grow a long conversation
LongIterations == 4
LongSessions == 2
\* config.maxIterations of the runs checked for termination
LiveIterations == 3
\* config.maxIterations of the runs with empty responses and failed requests
QuietIterations == 4
RaceIterations == 1
RaceSessions == 3
\* how many start()/chat() calls may be in flight at once
MaxLoops == 2
\* the longest conversation the truncation is computed for on its own
MaxTurns == 15
\* the most tool calls of a conversation the heuristic summary is computed
\* for on its own
MaxCalls == 50

\* ------------------------------------------------------------------------
\* Strings
\* ------------------------------------------------------------------------
Chars(s) ==
    CASE s = "" -> <<>>
      [] s = "Working on the layout." -> <<"W", "o", "r", "k", "i", "n", "g", " ", "o", "n", " ", "t", "h", "e", " ", "l", "a", "y", "o", "u", "t", ".">>
      [] s = "Done. TASK COMPLETE" -> <<"D", "o", "n", "e", ".", " ", "T", "A", "S", "K", " ", "C", "O", "M", "P", "L", "E", "T", "E">>
      [] s = "done. task complete" -> <<"d", "o", "n", "e", ".", " ", "t", "a", "s", "k", " ", "c", "o", "m", "p", "l", "e", "t", "e">>
      [] s = "Task Complete!" -> <<"T", "a", "s", "k", " ", "C", "o", "m", "p", "l", "e", "t", "e", "!">>
      [] s = "Finished. TASK" -> <<"F", "i", "n", "i", "s", "h", "e", "d", ".", " ", "T", "A", "S", "K">>
      [] s = " COMPLETE" -> <<" ", "C", "O", "M", "P", "L", "E", "T", "E">>
      [] s = "Not TASK COMPLETE yet" -> <<"N", "o", "t", " ", "T", "A", "S", "K", " ", "C", "O", "M", "P", "L", "E", "T", "E", " ", "y", "e", "t">>
      [] s = "TASK INCOMPLETE" -> <<"T", "A", "S", "K", " ", "I", "N", "C", "O", "M", "P", "L", "E", "T", "E">>
      [] s = "503 Service Unavailable" -> <<"5", "0", "3", " ", "S", "e", "r", "v", "i", "c", "e", " ", "U", "n", "a", "v", "a", "i", "l", "a", "b", "l", "e">>
      [] s = "The model is overloaded" -> <<"T", "h", "e", " ", "m", "o", "d", "e", "l", " ", "i", "s", " ", "o", "v", "e", "r", "l", "o", "a", "d", "e", "d">>
      [] s = "429 token quota exceeded" -> <<"4", "2", "9", " ", "t", "o", "k", "e", "n", " ", "q", "u", "o", "t", "a", " ", "e", "x", "c", "e", "e", "d", "e", "d">>
      [] s = "Context length exceeded" -> <<"C", "o", "n", "t", "e", "x", "t", " ", "l", "e", "n", "g", "t", "h", " ", "e", "x", "c", "e", "e", "d", "e", "d">>
      [] s = "400 Bad Request" -> <<"4", "0", "0", " ", "B", "a", "d", " ", "R", "e", "q", "u", "e", "s", "t">>
      [] s = "Invalid API token" -> <<"I", "n", "v", "a", "l", "i", "d", " ", "A", "P", "I", " ", "t", "o", "k", "e", "n">>
      [] s = "Backend down" -> <<"B", "a", "c", "k", "e", "n", "d", " ", "d", "o", "w", "n">>
      [] s = "{}" -> <<"{", "}">>
      [] s = "{\"status\":503}" -> <<"{", "\"", "s", "t", "a", "t", "u", "s", "\"", ":", "5", "0", "3", "}">>
      [] s = "TASK COMPLETE" -> <<"T", "A", "S", "K", " ", "C", "O", "M", "P", "L", "E", "T", "E">>
      [] s = "503" -> <<"5", "0", "3">>
      [] s = "429" -> <<"4", "2", "9">>
      [] s = "overloaded" -> <<"o", "v", "e", "r", "l", "o", "a", "d", "e", "d">>
      [] s = "UNAVAILABLE" -> <<"U", "N", "A", "V", "A", "I", "L", "A", "B", "L", "E">>
      [] s = "rate limit" -> <<"r", "a", "t", "e", " ", "l", "i", "m", "i", "t">>
      [] s = "quota" -> <<"q", "u", "o", "t", "a">>
      [] s = "token" -> <<"t", "o", "k", "e", "n">>
      [] s = "context length" -> <<"c", "o", "n", "t", "e", "x", "t", " ", "l", "e", "n", "g", "t", "h">>
      [] s = "too long" -> <<"t", "o", "o", " ", "l", "o", "n", "g">>
      [] s = "maximum context" -> <<"m", "a", "x", "i", "m", "u", "m", " ", "c", "o", "n", "t", "e", "x", "t">>

LowerLetters == <<"a","b","c","d","e","f","g","h","i","j","k","l","m","n","o","p","q","r","s","t","u","v","w","x","y","z">>
UpperLetters == <<"A","B","C","D","E","F","G","H","I","J","K","L","M","N","O","P","Q","R","S","T","U","V","W","X","Y","Z">>

IndexIn(c, letters) ==
    IF \E i \in 1..Len(letters) : letters[i] = c
    THEN CHOOSE i \in 1..Len(letters) : letters[i] = c
    ELSE 0

\* String.prototype.toUpperCase on a character sequence
ToUpperCase(cs) ==
    [i \in 1..Len(cs) |->
        IF IndexIn(cs[i], LowerLetters) > 0
        THEN UpperLetters[IndexIn(cs[i], LowerLetters)]
        ELSE cs[i]]

\* String.prototype.toLowerCase on a character sequence
ToLowerCase(cs) ==
    [i \in 1..Len(cs) |->
        IF IndexIn(cs[i], UpperLetters) > 0
        THEN LowerLetters[IndexIn(cs[i], UpperLetters)]
        ELSE cs[i]]

\* String.prototype.includes on character sequences
Includes(cs, needle) ==
    \E k \in 0..(Len(cs) - Len(needle)) :
        \A j \in 1..Len(needle) : cs[k + j] = needle[j]

RECURSIVE ConcatChars(_)
\* the characters of the concatenation of a sequence of strings
ConcatChars(strs) ==
    IF strs = <<>> THEN <<>>
    ELSE Chars(Head(strs)) \o ConcatChars(Tail(strs))

\* ------------------------------------------------------------------------
\* Conversation: turns and parts
\* ------------------------------------------------------------------------
\* activeProjectPath before start(): null
NoPath == "<null>"

TextPart(segments) == [kind |-> "text", text |-> segments]
UserText(segments) == [role |-> "user", parts |-> <<TextPart(segments)>>]
CallPart(n, a) == [kind |-> "functionCall", name |-> n, args |-> a]
CallPartNoArgs(n) == [kind |-> "functionCall", name |-> n]
ResponsePart(n, r) == [kind |-> "functionResponse", name |-> n, result |-> r]

\* createTaskPrompt: the template literal as its segments
createTaskPrompt(topic, projectPath, databaseUrl) ==
    <<"BUILD: ", topic, "PATH: ", projectPath>>
    \o (IF databaseUrl # "" THEN <<"DB: ", databaseUrl>> ELSE <<>>)
    \o <<"1. file_exists ", projectPath, " 2. ... 6. check_typescript">>

PreviousProgressHeader == "\n\n## Previous Progress:\n"
ContinueInstruction == "\n\nContinue from where you left off."
NudgeText == "Continue with the task. Use tools as needed. When finished, say \"TASK COMPLETE\"."

\* the turn carries the summary without the task prompt
SummaryTurnNoPrompt(taskPrompt, summary) ==
    UserText(<<"## Previous Progress:\n">> \o summary \o <<ContinueInstruction>>)

\* the summary comes before the task prompt
SummaryTurnSummaryFirst(taskPrompt, summary) ==
    UserText(<<"## Previous Progress:\n">> \o summary \o <<"\n\n">> \o taskPrompt
             \o <<ContinueInstruction>>)

\* the seed and reseed turn that carries a summary
SummaryTurn(taskPrompt, summary) ==
    UserText(taskPrompt \o <<PreviousProgressHeader>> \o summary \o <<ContinueInstruction>>)

\* all turns are discarded and none is put in their place
ReseedConversationEmpty(taskPrompt, summary) == <<>>

\* this.conversation = [{role: 'user', parts: [{text: ...}]}] of
\* handleTokenLimitExceeded
ReseedConversation(taskPrompt, summary) == <<SummaryTurn(taskPrompt, summary)>>

ErrorTurn(message) == UserText(<<"Error: ", message, ". Try a different approach.">>)

\* ------------------------------------------------------------------------
\* Tool registry (getAllTools) and the tool doubles
\* ------------------------------------------------------------------------
ToolNames == {"read_file", "write_file", "create_directory", "exec_command", "create_nextjs_project"}

\* the argument names in a fixed order
ArgNames == <<"command", "content", "cwd", "path", "projectName", "projectPath">>

RECURSIVE ArgValues(_, _)
ArgValues(args, names) ==
    IF names = <<>> THEN <<>>
    ELSE (IF Head(names) \in DOMAIN args THEN <<Head(names), args[Head(names)]>> ELSE <<>>)
         \o ArgValues(args, Tail(names))

\* the string a tool double resolves with: it tells the call it was run for
ToolOutput(name, args) == <<"ran ", name>> \o ArgValues(args, ArgNames)
ToolFailure == "EACCES: permission denied"

\* process.cwd(): the directory the CLI was run in, of which the project
\* directories are subdirectories
ProcessCwd == "/work"
\* const cwd = input.cwd || process.cwd() of exec_command, <null> for the
\* tools that run no command
ExecCwd(name, args) ==
    IF name # "exec_command" THEN NoPath
    ELSE IF "cwd" \in DOMAIN args /\ args.cwd # "" THEN args.cwd
    ELSE ProcessCwd

\* ------------------------------------------------------------------------
\* The provider double: responses and failures of generateContent
\* ------------------------------------------------------------------------
Attacker == "/tmp/attacker"

Response(parts, finishReason, promptTokenCount) ==
    [parts |-> parts, finishReason |-> finishReason, promptTokenCount |-> promptTokenCount]
RawText(s) == [kind |-> "text", text |-> s]
OtherPart == [kind |-> "other"]

R_Empty == Response(<<>>, "STOP", 0)
R_NoContent == Response(<<OtherPart, RawText("")>>, "STOP", 0)
R_Text == Response(<<RawText("Working on the layout.")>>, "MAX_TOKENS", 700000)
R_NearMiss == Response(<<RawText("TASK INCOMPLETE")>>, "MAX_TOKENS", 700000)
R_Stop == Response(<<RawText("Working on the layout.")>>, "STOP", 1000)
R_Done == Response(<<RawText("Done. TASK COMPLETE")>>, "STOP", 1000)
R_DoneLower == Response(<<RawText("done. task complete")>>, "STOP", 1000)
R_DoneMixed == Response(<<RawText("Task Complete!")>>, "MAX_TOKENS", 1000)
R_DoneSplit == Response(<<RawText("Finished. TASK"), OtherPart, RawText(" COMPLETE")>>, "STOP", 1000)
R_Mention == Response(<<RawText("Not TASK COMPLETE yet")>>, "MAX_TOKENS", 1000)
R_DoneWithCall ==
    Response(<<RawText("Done. TASK COMPLETE"),
               CallPart("exec_command", [command |-> "pnpm build"])>>, "STOP", 1000)
R_Exec ==
    Response(<<CallPart("exec_command", [command |-> "pnpm build", cwd |-> Attacker])>>,
             "STOP", 800000)
R_Scaffold ==
    Response(<<CallPart("create_nextjs_project", [projectPath |-> Attacker, projectName |-> "app"]),
               CallPart("exec_command", [command |-> "pnpm install", cwd |-> "/work/project"])>>,
             "STOP", 800000)
R_Reads ==
    Response(<<CallPart("read_file", [path |-> "/etc/passwd"]),
               CallPartNoArgs("bogus_tool"),
               CallPart("read_file", [path |-> "/work/project/a.ts"])>>, "STOP", 0)
R_WriteExec ==
    Response(<<RawText("Working on the layout."),
               CallPart("write_file", [path |-> "/work/project/a.ts", content |-> "x"]),
               CallPart("exec_command", [command |-> "pnpm build"])>>, "STOP", 1000)
\* a call whose functionCall carries no args object
R_ExecNoArgs == Response(<<CallPartNoArgs("exec_command")>>, "STOP", 1000)

AllResponses ==
    {R_Empty, R_NoContent, R_Text, R_NearMiss, R_Stop, R_Done, R_DoneLower, R_DoneMixed,
     R_DoneSplit, R_Mention, R_DoneWithCall, R_Exec, R_Scaffold, R_Reads, R_WriteExec,
     R_ExecNoArgs}

\* an error thrown by generateContent: its message and its JSON.stringify
Failure(message, json) == [message |-> message, json |-> json]
E_503 == Failure("503 Service Unavailable", "{}")
E_Quota == Failure("429 token quota exceeded", "{}")
E_Status == Failure("Backend down", "{\"status\":503}")
E_Context == Failure("Context length exceeded", "{}")
E_BadRequest == Failure("400 Bad Request", "{}")
E_ApiToken == Failure("Invalid API token", "{}")

AllFailures == {E_503, E_Quota, E_Status, E_Context, E_BadRequest, E_ApiToken}

\* ------------------------------------------------------------------------
\* Pure functions of the agent
\* ------------------------------------------------------------------------
IsFunctionCall(p) == p.kind = "functionCall"
HasText(p) == p.kind = "text" /\ p.text # ""

\* part.functionCall.name || ''
CallName(p) == IF "name" \in DOMAIN p THEN p.name ELSE ""
\* part.functionCall.args || {}
CallArguments(p) == IF "args" \in DOMAIN p THEN p.args ELSE <<>>

\* Agent.parseResponse: text is the sequence of the text parts (its value is
\* their concatenation), toolCalls and functionResponseParts go in step
ParseResponse(response) ==
    LET texts == SelectSeq(response.parts, HasText)
        calls == SelectSeq(response.parts, IsFunctionCall)
    IN [text |-> [i \in 1..Len(texts) |-> texts[i].text],
        toolCalls |-> [i \in 1..Len(calls) |->
                          [name |-> CallName(calls[i]), arguments |-> CallArguments(calls[i])]],
        functionResponseParts |-> calls]

CompletionPhrase == "TASK COMPLETE"

\* text.includes('TASK COMPLETE'), the case as it is
HasCompletionSignalExact(text) ==
    Includes(ConcatChars(text), Chars(CompletionPhrase))

\* text.toUpperCase().includes('TASK COMPLETE')
HasCompletionSignal(text) ==
    Includes(ToUpperCase(ConcatChars(text)), Chars(CompletionPhrase))

\* the retryable test of Agent.callAIWithRetry
IsRetryable(error) ==
    LET errorMessage == Chars(error.message)
        errorString == Chars(error.json)
    IN \/ Includes(errorMessage, Chars("503"))
       \/ Includes(errorMessage, Chars("429"))
       \/ Includes(errorMessage, Chars("overloaded"))
       \/ Includes(errorMessage, Chars("UNAVAILABLE"))
       \/ Includes(errorMessage, Chars("rate limit"))
       \/ Includes(errorMessage, Chars("quota"))
       \/ Includes(errorString, Chars("503"))
       \/ Includes(errorString, Chars("overloaded"))

\* Agent.isTokenLimitError
IsTokenLimitError(error) ==
    LET msg == ToLowerCase(Chars(error.message))
    IN \/ Includes(msg, Chars("token"))
       \/ Includes(msg, Chars("context length"))
       \/ Includes(msg, Chars("too long"))
       \/ Includes(msg, Chars("maximum context"))

RECURSIVE Pow2(_)
Pow2(n) == IF n = 0 THEN 1 ELSE 2 * Pow2(n - 1)

\* the delay grows by the base delay with each attempt
RetryDelayLinear(attempt) == INITIAL_RETRY_DELAY_MS * attempt

\* INITIAL_RETRY_DELAY_MS * Math.pow(2, attempt - 1)
RetryDelay(attempt) == INITIAL_RETRY_DELAY_MS * Pow2(attempt - 1)

\* the threshold itself counts as over it
OverThresholdInclusive(tokenCount) ==
    tokenCount * 10 >= MAX_CONTEXT_TOKENS * COMPRESSION_THRESHOLD_TENTHS

\* lastTokenCount > MAX_CONTEXT_TOKENS * COMPRESSION_THRESHOLD
OverThreshold(tokenCount) ==
    tokenCount * 10 > MAX_CONTEXT_TOKENS * COMPRESSION_THRESHOLD_TENTHS

\* the most recent turns only, the first turn not kept
CompressConversationRecentOnly(conv) ==
    IF Len(conv) <= KEEP_RECENT_MESSAGES + 1 THEN conv
    ELSE SubSeq(conv, Len(conv) - KEEP_RECENT_MESSAGES, Len(conv))

\* Agent.compressConversation
CompressConversation(conv) ==
    IF Len(conv) <= KEEP_RECENT_MESSAGES + 1 THEN conv
    ELSE <<conv[1]>> \o SubSeq(conv, Len(conv) - KEEP_RECENT_MESSAGES + 1, Len(conv))

\* Agent.checkAndCompressConversation
CheckAndCompress(conv, tokenCount) ==
    IF OverThreshold(tokenCount) THEN CompressConversation(conv) ELSE conv

\* Agent.updateTokenCount: a missing or zero promptTokenCount changes nothing
UpdateTokenCount(tokenCount, response) ==
    IF response.promptTokenCount # 0 THEN response.promptTokenCount ELSE tokenCount

\* only cwd is overwritten
EnforceCwdOnly(arguments, active) ==
    IF active # NoPath /\ active # ""
    THEN [k \in DOMAIN arguments |-> IF k = "cwd" THEN active ELSE arguments[k]]
    ELSE arguments

\* Agent.executeTools, "Enforce project path"
EnforceProjectPath(arguments, active) ==
    IF active # NoPath /\ active # ""
    THEN [k \in DOMAIN arguments |->
            IF k \in {"cwd", "projectPath"} THEN active ELSE arguments[k]]
    ELSE arguments

\* Agent.executeTools up to the point where every execute() has been called:
\* one execution per call, in call order; an unknown tool resolves at once
\* the error string does not name the tool
NotFoundResultUnnamed(name) == <<"Error: Tool not found">>

\* `Error: Tool "${call.name}" not found`
NotFoundResult(name) == <<"Error: Tool \"", name, "\" not found">>

LaunchTools(toolCalls, active) ==
    [i \in 1..Len(toolCalls) |->
        LET call == toolCalls[i]
            found == call.name \in ToolNames
        IN [name |-> call.name,
            supplied |-> call.arguments,
            arguments |-> EnforceProjectPath(call.arguments, active),
            found |-> found,
            status |-> IF found THEN "running" ELSE "done",
            threw |-> FALSE,
            ranIn |-> NoPath,
            result |-> IF found THEN <<>> ELSE NotFoundResult(call.name),
            order |-> IF found THEN 0
                      ELSE Cardinality({j \in 1..i : toolCalls[j].name \notin ToolNames})]]

\* call.arguments is the object part.functionCall.args: the overwrite of cwd
\* and projectPath shows in the parts kept for the model turn
AliasedParts(parts, active) ==
    [i \in 1..Len(parts) |->
        IF "args" \in DOMAIN parts[i]
        THEN [parts[i] EXCEPT !.args = EnforceProjectPath(parts[i].args, active)]
        ELSE parts[i]]

\* the message of the error is the result, without the prefix
SettledResultBare(exec, outcome) ==
    IF outcome = "ok" THEN ToolOutput(exec.name, exec.arguments)
    ELSE <<ToolFailure>>

\* the value a finished execution resolves with (the try/catch around execute)
SettledResult(exec, outcome) ==
    IF outcome = "ok" THEN ToolOutput(exec.name, exec.arguments)
    ELSE <<"Error: ", ToolFailure>>

\* the results in the order in which the executions settled
PromiseAllByCompletion(execs) ==
    [i \in 1..Len(execs) |->
        LET j == CHOOSE j \in 1..Len(execs) : execs[j].order = i
        IN [name |-> execs[j].name, result |-> execs[j].result]]

\* Promise.all: the results in the order of the promises
PromiseAll(execs) ==
    [i \in 1..Len(execs) |-> [name |-> execs[i].name, result |-> execs[i].result]]

\* Promise.race: the first settled execution ends the wait
AnySettled(execs) == \E i \in 1..Len(execs) : execs[i].status = "done"

IsRunning(exec) == exec.status = "running"
\* the wait for the round never ends
AllSettledNever(execs) == FALSE
AllSettled(execs) == \A i \in 1..Len(execs) : execs[i].status = "done"

\* a result turn that leaves out the calls to unknown tools
ResultTurnDropNotFound(toolResults) ==
    [role |-> "user",
     parts |-> LET known == SelectSeq(toolResults, LAMBDA r : r.name \in ToolNames)
               IN [i \in 1..Len(known) |-> ResponsePart(known[i].name, known[i].result)]]

\* the model turn and the result turn pushed after a round
ModelTurn(parts, text) ==
    [role |-> "model",
     parts |-> IF Len(parts) > 0 THEN parts ELSE <<TextPart(text)>>]
ResultTurn(toolResults) ==
    [role |-> "user",
     parts |-> [i \in 1..Len(toolResults) |->
                   ResponsePart(toolResults[i].name, toolResults[i].result)]]

\* iteration <= maxIterations
LoopContinuesInclusive(complete, iter, maxIter) == ~complete /\ iter <= maxIter

\* while (!isComplete && iteration < maxIterations)
LoopContinues(complete, iter, maxIter) == ~complete /\ iter < maxIter

\* an empty response counts twice
NextEmptyCountDouble(count, kind) == IF kind = "empty" THEN count + 2 ELSE 0

\* the count is never reset
NextEmptyCountNoReset(count, kind) == IF kind = "empty" THEN count + 1 ELSE count

\* consecutiveEmptyResponses++ on an empty response, = 0 on any other
NextEmptyCount(count, kind) == IF kind = "empty" THEN count + 1 ELSE 0

\* the first error of the request is kept
RecordErrorFirst(last, error) == IF last.message = "" /\ last.json = "" THEN error ELSE last

\* lastError = error, in the catch of callAIWithRetry
RecordError(last, error) == error

\* every error is retried while attempts remain
RetryDecisionAlways(retryable, n) ==
    IF n < MAX_API_RETRIES THEN "sleep" ELSE "exhausted"

\* the if / else if after the retryable test: sleep and go on, throw the
\* error at once, or fall out of the for loop after the last attempt
RetryDecision(retryable, n) ==
    IF retryable /\ n < MAX_API_RETRIES THEN "sleep"
    ELSE IF ~retryable THEN "throw"
    ELSE "exhausted"

\* attempt++ of the for loop of callAIWithRetry
NextAttempt(n) == n + 1

\* every error of the iteration becomes an error turn
LoopCatchNoRecovery(error) == "errorTurn"

\* errors that are not token-limit errors are thrown on
LoopCatchRethrow(error) ==
    IF IsTokenLimitError(error) THEN "summarize" ELSE "rethrow"

\* the catch of the loop body: which way an error of the iteration goes
LoopCatch(error) ==
    IF IsTokenLimitError(error) THEN "summarize" ELSE "errorTurn"

\* ------------------------------------------------------------------------
\* ConversationSummarizer
\* ------------------------------------------------------------------------
FALLBACK_MAX_ITEMS == 30
SummaryTools == {"write_file", "create_directory", "exec_command"}

\* all parts of the conversation, turn after turn
RECURSIVE AllParts(_)
AllParts(conv) ==
    IF conv = <<>> THEN <<>> ELSE Head(conv).parts \o AllParts(Tail(conv))

IsSummaryCall(p) == p.kind = "functionCall" /\ CallName(p) \in SummaryTools

\* `- ${name}: ${args.path || args.command || 'completed'}`
FallbackItem(p) ==
    <<"- ", CallName(p), ": ",
      IF "path" \in DOMAIN p.args /\ p.args.path # "" THEN p.args.path
      ELSE IF "command" \in DOMAIN p.args /\ p.args.command # "" THEN p.args.command
      ELSE "completed">>

\* every item is kept, repeated or not
UniqueKeepAll(items) == items

\* [...new Set(items)]: first occurrences, in order
RECURSIVE Unique(_)
Unique(items) ==
    IF items = <<>> THEN <<>>
    ELSE LET front == Unique(SubSeq(items, 1, Len(items) - 1))
             last == items[Len(items)]
         IN IF \E i \in 1..Len(front) : front[i] = last THEN front
            ELSE Append(front, last)

RECURSIVE JoinLines(_)
JoinLines(items) ==
    IF items = <<>> THEN <<>>
    ELSE IF Len(items) = 1 THEN items[1]
    ELSE items[1] \o <<"\n">> \o JoinLines(Tail(items))

\* fallbackSummary reads args.path of a call whose args are undefined: TypeError
FallbackThrows(conv) ==
    \E i \in 1..Len(AllParts(conv)) :
        IsSummaryCall(AllParts(conv)[i]) /\ "args" \notin DOMAIN AllParts(conv)[i]

\* ConversationSummarizer.fallbackSummary
FallbackSummary(conv) ==
    LET calls == SelectSeq(AllParts(conv), IsSummaryCall)
        items == [i \in 1..Len(calls) |-> FallbackItem(calls[i])]
        uniqueItems == Unique(items)
        kept == SubSeq(uniqueItems, 1,
                       IF Len(uniqueItems) < FALLBACK_MAX_ITEMS
                       THEN Len(uniqueItems) ELSE FALLBACK_MAX_ITEMS)
    IN <<"## Progress Summary (fallback)\n\n">> \o JoinLines(kept)

\* no summary file is ever found
LoadSummaryNone(files, projectPath) == <<>>

\* ConversationSummarizer.loadSummary: the content of the summary file of the
\* directory, <<>> (null) when there is none
LoadSummary(files, projectPath) == files[projectPath]

\* the text the summarizer model returns when it returns one
GeneratedSummary == <<"## Completed Tasks: layout. ## Next Steps: build.">>

\* a failed or empty summarizer call is thrown to the caller
GenerateSummaryRethrow(result, conv) ==
    IF result = "text" THEN [threw |-> FALSE, summary |-> GeneratedSummary]
    ELSE [threw |-> TRUE, summary |-> <<>>]

\* ConversationSummarizer.generateSummary, given how the model call of the
\* summarizer ended: its text, or the fallback summary when the call failed
\* or returned no text; what the fallback throws is thrown to the caller
GenerateSummary(result, conv) ==
    IF result = "text" THEN [threw |-> FALSE, summary |-> GeneratedSummary]
    ELSE IF FallbackThrows(conv) THEN [threw |-> TRUE, summary |-> <<>>]
    ELSE [threw |-> FALSE, summary |-> FallbackSummary(conv)]

\* ------------------------------------------------------------------------
\* The runs explored: config.maxIterations, the number of start()/chat()
\* calls the driver makes, and what the provider and tool doubles may do
\* ------------------------------------------------------------------------
Profiles == {"deep", "wide", "long", "quiet"}
\* the runs checked for termination
LiveProfiles == {"wide", "live"}
\* the runs of a driver that does not await its calls
RaceProfiles == {"race"}

ConfigIterations(p) ==
    CASE p = "deep" -> DeepIterations
      [] p = "wide" -> WideIterations
      [] p = "long" -> LongIterations
      [] p = "live" -> LiveIterations
      [] p = "quiet" -> QuietIterations
      [] p = "race" -> RaceIterations
DriverSessions(p) ==
    CASE p = "deep" -> 1
      [] p = "wide" -> WideSessions
      [] p = "long" -> LongSessions
      [] p = "live" -> 1
      [] p = "quiet" -> 1
      [] p = "race" -> RaceSessions
Responses(p) ==
    CASE p = "long" -> {R_Exec, R_WriteExec, R_Text}
      [] p = "live" -> {R_Empty, R_Text, R_Exec, R_Done}
      [] p = "quiet" -> {R_Empty, R_Text}
      [] p = "race" -> {R_Exec, R_Done}
      [] OTHER -> AllResponses
Failures(p) ==
    CASE p = "long" -> {E_Context}
      [] p = "live" -> {E_503, E_Context, E_BadRequest}
      [] p = "quiet" -> {E_Context, E_BadRequest}
      [] p = "race" -> {E_503, E_Context}
      [] OTHER -> AllFailures
\* the tool doubles whose execute may throw
Throwing(p) == IF p = "long" THEN {} ELSE {"exec_command"}

BlogTask == [prompt |-> "Build a blog", projectPath |-> "/work/project", databaseUrl |-> ""]
ShopTask ==
    [prompt |-> "Build a shop", projectPath |-> "/work/other", databaseUrl |-> "postgres://db"]
AllTasks == {BlogTask, ShopTask}
\* the tasks the driver may give to start()
Tasks(p) == IF p = "wide" THEN AllTasks ELSE {BlogTask}
ProjectPaths == {t.projectPath : t \in AllTasks}
Messages == {"Add dark mode"}

\* ------------------------------------------------------------------------
\* State
\* ------------------------------------------------------------------------
VARIABLES
    \* Agent fields
    conversation, activeProjectPath, isInitialized, originalTaskPrompt,
    lastTokenCount, maxIterations,
    \* locals of executeTaskLoop
    pc, contextId, iteration, isComplete, consecutiveEmptyResponses,
    text, finishReason, functionResponseParts, execs,
    \* locals of callAIWithRetry: the attempt in flight, lastError, delayMs;
    \* the delays slept so far in this request, the error the latest attempt
    \* failed with, and the error the request threw to the loop
    attempt, lastError, delayMs, sleeps, attemptError, raised,
    \* locals of handleTokenLimitExceeded
    summary,
    \* the summary file of each project directory (<<>>: none)
    disk,
    \* the run: its profile, the calls the driver may still make, how the
    \* last call ended, and what the loop did so far
    profile, sessionsLeft, outcome, requests, history, finished,
    \* the activations of executeTaskLoop that are in flight besides the one
    \* the variables above describe: the locals of each
    suspended

agentVars == <<conversation, activeProjectPath, isInitialized, originalTaskPrompt,
               lastTokenCount, maxIterations>>
loopVars == <<contextId, iteration, isComplete, consecutiveEmptyResponses>>
roundVars == <<text, finishReason, functionResponseParts, execs>>
retryVars == <<attempt, lastError, delayMs, sleeps, attemptError, raised>>
vars == <<conversation, activeProjectPath, isInitialized, originalTaskPrompt,
          lastTokenCount, maxIterations, pc, contextId, iteration, isComplete,
          consecutiveEmptyResponses, text, finishReason, functionResponseParts, execs,
          attempt, lastError, delayMs, sleeps, attemptError, raised, summary, disk,
          profile, sessionsLeft, outcome, requests, history, finished, suspended>>

NoError == Failure("", "")

InitOf(profiles) ==
    /\ profile \in profiles
    /\ maxIterations = ConfigIterations(profile)
    /\ sessionsLeft = DriverSessions(profile)
    /\ conversation = <<>>
    /\ activeProjectPath = NoPath
    /\ isInitialized = FALSE
    /\ originalTaskPrompt = <<>>
    /\ lastTokenCount = 0
    /\ pc = "idle"
    /\ contextId = ""
    /\ iteration = 0
    /\ isComplete = FALSE
    /\ consecutiveEmptyResponses = 0
    /\ text = <<>>
    /\ finishReason = ""
    /\ functionResponseParts = <<>>
    /\ execs = <<>>
    /\ attempt = 0
    /\ lastError = NoError
    /\ delayMs = 0
    /\ sleeps = <<>>
    /\ attemptError = NoError
    /\ raised = NoError
    /\ summary = <<>>
    /\ disk = [p \in ProjectPaths |-> <<>>]
    /\ outcome = "none"
    /\ requests = 0
    /\ history = <<>>
    /\ finished = 0
    /\ suspended = <<>>

Init == InitOf(Profiles)
InitLive == InitOf(LiveProfiles)
InitRace == InitOf(RaceProfiles)

\* the check passes on every agent
HasProjectPathAlways(path) == TRUE

\* this.activeProjectPath is set: neither null nor the empty string
HasProjectPath(path) == path # NoPath /\ path # ""

\* entry of executeTaskLoop: its locals as declared
EnterLoop(id) ==
    /\ pc' = "loopHead"
    /\ contextId' = id
    /\ iteration' = 0
    /\ isComplete' = FALSE
    /\ consecutiveEmptyResponses' = 0
    /\ text' = <<>>
    /\ finishReason' = ""
    /\ functionResponseParts' = <<>>
    /\ execs' = <<>>
    /\ attempt' = 0
    /\ lastError' = NoError
    /\ delayMs' = 0
    /\ sleeps' = <<>>
    /\ attemptError' = NoError
    /\ raised' = NoError
    /\ summary' = <<>>
    /\ outcome' = "running"
    /\ requests' = 0
    /\ history' = <<>>
    /\ finished' = 0

\* Agent.start up to the first iteration of the loop
StartCall(task) ==
    /\ task \in Tasks(profile)
    /\ sessionsLeft > 0
    /\ sessionsLeft' = sessionsLeft - 1
    /\ isInitialized' = TRUE
    /\ activeProjectPath' = task.projectPath
    /\ LET setupPrompt == createTaskPrompt(task.prompt, task.projectPath, task.databaseUrl)
           previousSummary == LoadSummary(disk, task.projectPath)
       IN /\ originalTaskPrompt' = setupPrompt
          /\ conversation' = IF previousSummary # <<>>
                             THEN <<SummaryTurn(setupPrompt, previousSummary)>>
                             ELSE <<UserText(setupPrompt)>>
    /\ EnterLoop("Planning-Phase")
    /\ UNCHANGED <<lastTokenCount, maxIterations, disk, profile>>

\* start() called by a driver that has awaited its previous call
Start(task) ==
    /\ pc = "idle"
    /\ StartCall(task)
    /\ UNCHANGED suspended

\* Agent.chat on a started agent, up to the first iteration of the loop
ChatCall(message) ==
    /\ sessionsLeft > 0
    /\ HasProjectPath(activeProjectPath)
    /\ sessionsLeft' = sessionsLeft - 1
    /\ isInitialized' = TRUE
    /\ conversation' = Append(conversation, UserText(<<message>>))
    /\ EnterLoop("Follow-up-Phase")
    /\ UNCHANGED <<activeProjectPath, originalTaskPrompt, lastTokenCount, maxIterations,
                   disk, profile>>

\* chat() called by a driver that has awaited its previous call
Chat(message) ==
    /\ pc = "idle"
    /\ ChatCall(message)
    /\ UNCHANGED suspended

\* Agent.chat before any start(): throws 'Agent has not been started'
ChatNotStarted(message) ==
    /\ pc = "idle"
    /\ sessionsLeft > 0
    /\ ~HasProjectPath(activeProjectPath)
    /\ sessionsLeft' = sessionsLeft - 1
    /\ isInitialized' = TRUE
    /\ outcome' = "rejected"
    /\ UNCHANGED <<conversation, activeProjectPath, originalTaskPrompt, lastTokenCount,
                   maxIterations, pc, loopVars, roundVars, retryVars, summary, disk,
                   profile, suspended, requests, history, finished>>

\* while (!isComplete && iteration < maxIterations): one more iteration, the
\* budget check, and the request goes out (attempt 1 of callAIWithRetry)
LoopIterate ==
    /\ pc = "loopHead"
    /\ LoopContinues(isComplete, iteration, maxIterations)
    /\ iteration' = iteration + 1
    /\ conversation' = CheckAndCompress(conversation, lastTokenCount)
    /\ attempt' = 1
    /\ lastError' = NoError
    /\ delayMs' = 0
    /\ sleeps' = <<>>
    /\ attemptError' = NoError
    /\ raised' = NoError
    /\ requests' = requests + 1
    /\ pc' = "calling"
    \* the locals of the previous iteration are gone; an execution that were
    \* still running would go on running
    /\ text' = <<>>
    /\ finishReason' = ""
    /\ functionResponseParts' = <<>>
    /\ execs' = SelectSeq(execs, IsRunning)
    /\ summary' = <<>>
    /\ UNCHANGED <<activeProjectPath, isInitialized, originalTaskPrompt, lastTokenCount,
                   maxIterations, contextId, isComplete, consecutiveEmptyResponses,
                   disk, profile, suspended, sessionsLeft, outcome, history, finished>>

\* the while condition fails: the loop returns, with the warning when the
\* iterations ran out
LoopExit ==
    /\ pc = "loopHead"
    /\ ~LoopContinues(isComplete, iteration, maxIterations)
    /\ pc' = "idle"
    /\ outcome' = IF isComplete THEN "completed" ELSE "exhausted"
    /\ text' = <<>>
    /\ finishReason' = ""
    /\ functionResponseParts' = <<>>
    /\ execs' = SelectSeq(execs, IsRunning)
    /\ summary' = <<>>
    /\ UNCHANGED <<agentVars, loopVars, retryVars, disk, profile, suspended,
                   sessionsLeft, requests, history, finished>>

\* the catch block of the loop body, entered with the error of the iteration
HandleLoopError(error) ==
    LET way == LoopCatch(error)
    IN /\ raised' = error
       /\ history' = Append(history, IF way = "summarize" THEN "tokenlimit" ELSE "error")
       /\ CASE way = "summarize" ->
                 \* handleTokenLimitExceeded
                 IF activeProjectPath = NoPath \/ activeProjectPath = ""
                 THEN /\ conversation' = CompressConversation(conversation)
                      /\ pc' = "loopHead"
                      /\ UNCHANGED outcome
                 ELSE /\ pc' = "summarizing"
                      /\ UNCHANGED <<conversation, outcome>>
            [] way = "errorTurn" ->
                 /\ conversation' = Append(conversation, ErrorTurn(error.message))
                 /\ pc' = "loopHead"
                 /\ UNCHANGED outcome
            [] OTHER ->
                 \* not caught: the loop, and start() or chat() with it, throws
                 /\ pc' = "idle"
                 /\ outcome' = "threw"
                 /\ UNCHANGED conversation

\* callAI rejects: the catch of callAIWithRetry
ModelFails(error) ==
    /\ pc = "calling"
    /\ error \in Failures(profile)
    /\ lastError' = RecordError(lastError, error)
    /\ attemptError' = error
    /\ LET decision == RetryDecision(IsRetryable(error), attempt)
       IN CASE decision = "sleep" ->
                 /\ delayMs' = RetryDelay(attempt)
                 /\ pc' = "sleeping"
                 /\ UNCHANGED <<conversation, outcome, history, attempt, raised>>
            [] decision = "throw" ->
                 \* throw error
                 /\ HandleLoopError(error)
                 /\ UNCHANGED <<delayMs, attempt>>
            [] OTHER ->
                 \* the for loop is over: throw lastError
                 /\ HandleLoopError(lastError')
                 /\ UNCHANGED <<delayMs, attempt>>
    /\ UNCHANGED <<activeProjectPath, isInitialized, originalTaskPrompt, lastTokenCount,
                   maxIterations, loopVars, roundVars, sleeps, summary, disk, profile, suspended,
                   sessionsLeft, requests, finished>>

\* sleep(delayMs) is over: the next attempt goes out
BackoffElapses ==
    /\ pc = "sleeping"
    /\ sleeps' = Append(sleeps, delayMs)
    /\ attempt' = NextAttempt(attempt)
    /\ pc' = "calling"
    /\ UNCHANGED <<agentVars, loopVars, roundVars, lastError, delayMs, attemptError, raised,
                   summary, disk, profile, suspended, sessionsLeft, outcome, requests, history,
                   finished>>

\* a text-only response is never a completion
ResponseKindNeverStop(parsed, response) ==
    IF ConcatChars(parsed.text) = <<>> /\ Len(parsed.toolCalls) = 0 THEN "empty"
    ELSE IF ConcatChars(parsed.text) # <<>> /\ HasCompletionSignal(parsed.text) THEN "done"
    ELSE IF Len(parsed.toolCalls) = 0 THEN "nudge"
    ELSE IF Len(parsed.toolCalls) = 1 THEN "tool1" ELSE "toolN"

\* the tool calls of a response are looked at before its text
ResponseKindToolsFirst(parsed, response) ==
    IF ConcatChars(parsed.text) = <<>> /\ Len(parsed.toolCalls) = 0 THEN "empty"
    ELSE IF Len(parsed.toolCalls) = 1 THEN "tool1"
    ELSE IF Len(parsed.toolCalls) > 1 THEN "toolN"
    ELSE IF ConcatChars(parsed.text) # <<>> /\ HasCompletionSignal(parsed.text) THEN "done"
    ELSE IF response.finishReason = "STOP" THEN "stop" ELSE "nudge"

\* the branch of the loop body a response takes
ResponseKind(parsed, response) ==
    IF ConcatChars(parsed.text) = <<>> /\ Len(parsed.toolCalls) = 0 THEN "empty"
    ELSE IF ConcatChars(parsed.text) # <<>> /\ HasCompletionSignal(parsed.text) THEN "done"
    ELSE IF Len(parsed.toolCalls) = 0
         THEN (IF response.finishReason = "STOP" THEN "stop" ELSE "nudge")
    ELSE IF Len(parsed.toolCalls) = 1 THEN "tool1" ELSE "toolN"

\* callAI resolves: the body of the try block up to its next await
ModelResponds(response) ==
    /\ pc = "calling"
    /\ response \in Responses(profile)
    /\ lastTokenCount' = UpdateTokenCount(lastTokenCount, response)
    /\ LET parsed == ParseResponse(response)
           kind == ResponseKind(parsed, response)
       IN /\ text' = parsed.text
          /\ finishReason' = response.finishReason
          /\ history' = Append(history, kind)
          /\ consecutiveEmptyResponses' = NextEmptyCount(consecutiveEmptyResponses, kind)
          /\ CASE kind = "empty" ->
                    /\ isComplete' = (consecutiveEmptyResponses' >= MAX_EMPTY_RESPONSES)
                    /\ pc' = "loopHead"
                    /\ functionResponseParts' = parsed.functionResponseParts
                    /\ UNCHANGED <<conversation, execs, finished>>
               [] kind = "done" ->
                    /\ isComplete' = TRUE
                    /\ pc' = "loopHead"
                    /\ functionResponseParts' = parsed.functionResponseParts
                    /\ UNCHANGED <<conversation, execs, finished>>
               [] kind = "stop" ->
                    /\ isComplete' = TRUE
                    /\ pc' = "loopHead"
                    /\ functionResponseParts' = parsed.functionResponseParts
                    /\ UNCHANGED <<conversation, execs, finished>>
               [] kind = "nudge" ->
                    /\ conversation' = Append(conversation, UserText(<<NudgeText>>))
                    /\ pc' = "loopHead"
                    /\ functionResponseParts' = parsed.functionResponseParts
                    /\ UNCHANGED <<isComplete, execs, finished>>
               [] OTHER ->
                    \* executeTools: every call is prepared and launched
                    /\ execs' = LaunchTools(parsed.toolCalls, activeProjectPath)
                    /\ functionResponseParts' =
                           AliasedParts(parsed.functionResponseParts, activeProjectPath)
                    /\ finished' = Cardinality({i \in 1..Len(parsed.toolCalls) :
                                                   parsed.toolCalls[i].name \notin ToolNames})
                    /\ pc' = "tools"
                    /\ UNCHANGED <<conversation, isComplete>>
    \* callAIWithRetry has returned: its locals are gone
    /\ attempt' = 0
    /\ lastError' = NoError
    /\ delayMs' = 0
    /\ sleeps' = <<>>
    /\ attemptError' = NoError
    /\ raised' = NoError
    /\ UNCHANGED <<activeProjectPath, isInitialized, originalTaskPrompt, maxIterations,
                   contextId, iteration, summary, disk, profile, suspended, sessionsLeft,
                   outcome, requests>>

ToolOutcomes(name) == IF name \in Throwing(profile) THEN {"ok", "throw"} ELSE {"ok"}

\* one running execute() settles, resolving or throwing
ToolFinishes(i, toolOutcome) ==
    /\ i \in 1..Len(execs)
    /\ execs[i].status = "running"
    /\ toolOutcome \in ToolOutcomes(execs[i].name)
    /\ execs' = [execs EXCEPT ![i] =
                    [@ EXCEPT !.status = "done",
                              !.threw = (toolOutcome = "throw"),
                              !.ranIn = ExecCwd(execs[i].name, execs[i].arguments),
                              !.result = SettledResult(execs[i], toolOutcome),
                              !.order = finished + 1]]
    /\ finished' = finished + 1
    /\ UNCHANGED <<agentVars, pc, loopVars, text, finishReason, functionResponseParts, retryVars,
                   summary,
                   disk, profile, suspended, sessionsLeft, outcome, requests, history>>

\* await Promise.all(promises) returns: the model turn and the result turn
JoinTools ==
    /\ pc = "tools"
    /\ AllSettled(execs)
    /\ LET toolResults == PromiseAll(execs)
       IN conversation' = conversation \o
              <<ModelTurn(functionResponseParts, text), ResultTurn(toolResults)>>
    /\ pc' = "loopHead"
    /\ UNCHANGED <<activeProjectPath, isInitialized, originalTaskPrompt, lastTokenCount,
                   maxIterations, loopVars, roundVars, retryVars, summary, disk, profile, suspended,
                   sessionsLeft, outcome, requests, history, finished>>

SummarizerOutcomes == {"text", "empty", "fail"}

\* summarizer.generateSummary settles
SummarizerReturns(result) ==
    /\ pc = "summarizing"
    /\ result \in SummarizerOutcomes
    /\ LET generated == GenerateSummary(result, conversation)
       IN IF generated.threw
          THEN \* caught in handleTokenLimitExceeded: compress aggressively
               /\ conversation' = CompressConversation(conversation)
               /\ pc' = "loopHead"
               /\ UNCHANGED summary
          ELSE /\ summary' = generated.summary
               /\ pc' = "saving"
               /\ UNCHANGED conversation
    /\ UNCHANGED <<activeProjectPath, isInitialized, originalTaskPrompt, lastTokenCount,
                   maxIterations, loopVars, roundVars, retryVars, disk, profile, suspended,
                   sessionsLeft, outcome, requests, history, finished>>

\* summarizer.saveSummary settles (a failed write is logged, not thrown), and the
\* conversation is reseeded
SaveSummary(written) ==
    /\ pc = "saving"
    /\ written \in BOOLEAN
    /\ disk' = IF written THEN [disk EXCEPT ![activeProjectPath] = summary] ELSE disk
    /\ conversation' = ReseedConversation(originalTaskPrompt, summary)
    /\ pc' = "loopHead"
    /\ UNCHANGED <<activeProjectPath, isInitialized, originalTaskPrompt, lastTokenCount,
                   maxIterations, loopVars, roundVars, retryVars, summary, profile, suspended,
                   sessionsLeft, outcome, requests, history, finished>>

LoopStep ==
    \/ LoopIterate
    \/ LoopExit
    \/ \E response \in AllResponses : ModelResponds(response)
    \/ \E error \in AllFailures : ModelFails(error)
    \/ BackoffElapses
    \/ \E i \in 1..Len(execs), toolOutcome \in {"ok", "throw"} : ToolFinishes(i, toolOutcome)
    \/ JoinTools
    \/ \E result \in SummarizerOutcomes : SummarizerReturns(result)
    \/ \E written \in BOOLEAN : SaveSummary(written)

Next ==
    \/ \E task \in AllTasks : Start(task)
    \/ \E message \in Messages : Chat(message)
    \/ \E message \in Messages : ChatNotStarted(message)
    \/ LoopStep

Spec == Init /\ [][Next]_vars

\* the running activation of executeTaskLoop is suspended at an await on the
\* provider, a timer, the tools, the summarizer or the file system
Awaiting == pc \in {"calling", "sleeping", "tools", "summarizing", "saving"}

\* the locals of the running activation
LoopFrame ==
    [pc |-> pc, contextId |-> contextId, iteration |-> iteration, isComplete |-> isComplete,
     consecutiveEmptyResponses |-> consecutiveEmptyResponses, text |-> text,
     finishReason |-> finishReason, functionResponseParts |-> functionResponseParts,
     execs |-> execs, attempt |-> attempt, lastError |-> lastError, delayMs |-> delayMs,
     sleeps |-> sleeps, attemptError |-> attemptError, raised |-> raised,
     summary |-> summary, outcome |-> outcome, requests |-> requests,
     history |-> history, finished |-> finished]

\* the continuation of a suspended activation runs with its own locals
Restore(frame) ==
    /\ pc' = frame.pc
    /\ contextId' = frame.contextId
    /\ iteration' = frame.iteration
    /\ isComplete' = frame.isComplete
    /\ consecutiveEmptyResponses' = frame.consecutiveEmptyResponses
    /\ text' = frame.text
    /\ finishReason' = frame.finishReason
    /\ functionResponseParts' = frame.functionResponseParts
    /\ execs' = frame.execs
    /\ attempt' = frame.attempt
    /\ lastError' = frame.lastError
    /\ delayMs' = frame.delayMs
    /\ sleeps' = frame.sleeps
    /\ attemptError' = frame.attemptError
    /\ raised' = frame.raised
    /\ summary' = frame.summary
    /\ outcome' = frame.outcome
    /\ requests' = frame.requests
    /\ history' = frame.history
    /\ finished' = frame.finished

\* start() called while a loop of this agent is suspended: nothing in start()
\* or executeTaskLoop looks for a running loop, so the call runs as any other
StartInFlight(task) ==
    /\ Awaiting
    /\ Len(suspended) < MaxLoops - 1
    /\ suspended' = Append(suspended, LoopFrame)
    /\ StartCall(task)

\* chat() called while a loop of this agent is suspended
ChatInFlight(message) ==
    /\ Awaiting
    /\ Len(suspended) < MaxLoops - 1
    /\ suspended' = Append(suspended, LoopFrame)
    /\ ChatCall(message)

\* the event loop runs the continuation of another activation: the running
\* one has returned, or it stays suspended at its await
Resume(i) ==
    /\ i \in 1..Len(suspended)
    /\ Awaiting \/ pc = "idle"
    /\ Restore(suspended[i])
    /\ suspended' = IF pc = "idle"
                     THEN SubSeq(suspended, 1, i - 1) \o SubSeq(suspended, i + 1, Len(suspended))
                     ELSE [suspended EXCEPT ![i] = LoopFrame]
    /\ UNCHANGED <<agentVars, disk, profile, sessionsLeft>>

NextInFlight ==
    \/ Next
    \/ \E task \in AllTasks : StartInFlight(task)
    \/ \E message \in Messages : ChatInFlight(message)
    \/ \E i \in 1..(MaxLoops - 1) : Resume(i)

\* the agent under a driver that calls start() and chat() without awaiting
\* the call before
RaceSpec == InitRace /\ [][NextInFlight]_vars

\* every pending model call, tool execution, summarizer call, file write and
\* backoff sleep completes, and the loop runs when it can
FairSpec == InitLive /\ [][Next]_vars /\ WF_vars(LoopStep)
\* ========================================================================
\* Properties
\* ========================================================================
Last(seq) == seq[Len(seq)]
IsToolRound(kind) == kind \in {"tool1", "toolN"}
CallsOf(turn) == SelectSeq(turn.parts, IsFunctionCall)
IsToolResponse(p) == p.kind = "functionResponse"
ResultsOf(turn) == SelectSeq(turn.parts, IsToolResponse)
\* a lightweight truncation has cut the conversation: a result turn sits
\* right behind the first turn
Truncated ==
    /\ Len(conversation) = KEEP_RECENT_MESSAGES + 1
    /\ ResultsOf(conversation[2]) # <<>>

\* C1: every model-role turn of the conversation that holds k tool-call parts
\* is immediately followed by a user-role turn that holds exactly k
\* tool-result parts (and nothing else), and the i-th result carries the name
\* of the i-th call.
C1_CallsAnswered ==
    \A t \in 1..Len(conversation) :
        conversation[t].role = "model" =>
            /\ t < Len(conversation)
            /\ conversation[t + 1].role = "user"
            /\ LET calls == CallsOf(conversation[t])
                   answers == conversation[t + 1].parts
               IN /\ Len(answers) = Len(calls)
                  /\ \A i \in 1..Len(calls) :
                        /\ answers[i].kind = "functionResponse"
                        /\ answers[i].name = calls[i].name

\* a truncated conversation that holds a round of two calls to different tools
C1_Witness ==
    /\ Truncated
    /\ \E t \in 1..Len(conversation) :
          /\ conversation[t].role = "model"
          /\ Len(CallsOf(conversation[t])) = 2
          /\ CallsOf(conversation[t])[1].name # CallsOf(conversation[t])[2].name

\* C2: in a tool round, the i-th entry of the appended result turn is the
\* result of the i-th tool call the model issued, in whatever order the
\* executions finished: after the round the last turn holds, at position i,
\* the name and the result of the execution launched for the i-th call part
\* of the model turn before it.
C2_ResultsInCallOrder ==
    (pc = "loopHead" /\ execs # <<>>) =>
        LET modelTurn == conversation[Len(conversation) - 1]
            resultTurn == conversation[Len(conversation)]
        IN /\ Len(resultTurn.parts) = Len(execs)
           /\ Len(modelTurn.parts) = Len(execs)
           /\ \A i \in 1..Len(execs) :
                 /\ execs[i].name = CallName(modelTurn.parts[i])
                 /\ execs[i].arguments = CallArguments(modelTurn.parts[i])
                 /\ resultTurn.parts[i].kind = "functionResponse"
                 /\ resultTurn.parts[i].name = execs[i].name
                 /\ resultTurn.parts[i].result = execs[i].result
                 /\ execs[i].result \in
                       {ToolOutput(execs[i].name, execs[i].arguments),
                        <<"Error: ", ToolFailure>>,
                        NotFoundResult(execs[i].name)}

\* a round is appended whose later call finished before its earlier call
C2_Witness ==
    /\ pc = "loopHead"
    /\ Len(execs) >= 2
    /\ \E i, j \in 1..Len(execs) :
          /\ i < j
          /\ execs[i].found /\ execs[j].found
          /\ execs[i].order > execs[j].order
          /\ execs[i].result # execs[j].result
    /\ Last(conversation).role = "user"
    /\ ResultsOf(Last(conversation)) # <<>>

\* C3: the next model call is issued only after every execution of the round
\* has finished and the model turn and its result turn are in the
\* conversation: while a request is out (or backing off) no execution is
\* running, and if the previous iteration was a tool round the conversation
\* ends with its model turn and its result turn.
C3_NoCallWhileToolsRun ==
    pc \in {"calling", "sleeping"} =>
        /\ \A i \in 1..Len(execs) : execs[i].status # "running"
        /\ (history # <<>> /\ IsToolRound(Last(history))) =>
              /\ Len(conversation) >= 3
              /\ conversation[Len(conversation) - 1].role = "model"
              /\ Last(conversation).role = "user"
              /\ Len(ResultsOf(Last(conversation)))
                   = Len(CallsOf(conversation[Len(conversation) - 1]))
              /\ Len(ResultsOf(Last(conversation))) >= 1
              /\ \A i \in 1..Len(Last(conversation).parts) :
                    Last(conversation).parts[i].result # <<>>

\* a request is out right after a round of several calls
C3_Witness ==
    /\ pc = "calling"
    /\ iteration >= 2
    /\ IsToolRound(Last(history))
    /\ Len(ResultsOf(Last(conversation))) >= 2

\* C4: when the model supplied an argument named cwd or projectPath, the
\* value the tool's execute receives for it is the working directory set by
\* start(), whatever the model supplied.
C4_CwdPinned ==
    \A i \in 1..Len(execs) :
        execs[i].found =>
            \A k \in {"cwd", "projectPath"} :
                k \in DOMAIN execs[i].supplied =>
                    /\ k \in DOMAIN execs[i].arguments
                    /\ execs[i].arguments[k] = activeProjectPath

\* executions that were given a cwd and a projectPath other than the
\* working directory
C4_Witness ==
    /\ \E i \in 1..Len(execs) :
          /\ execs[i].found
          /\ "cwd" \in DOMAIN execs[i].supplied
          /\ execs[i].supplied.cwd # activeProjectPath
    /\ \E i \in 1..Len(execs) :
          /\ execs[i].found
          /\ "projectPath" \in DOMAIN execs[i].supplied
          /\ execs[i].supplied.projectPath # activeProjectPath

\* the components of the paths that occur
PathComponents(p) ==
    CASE p = "/work/project" -> <<"work", "project">>
      [] p = "/work/other" -> <<"work", "other">>
      [] p = "/work/project/a.ts" -> <<"work", "project", "a.ts">>
      [] p = "/etc/passwd" -> <<"etc", "passwd">>
      [] p = "/tmp/attacker" -> <<"tmp", "attacker">>
\* path p is the directory root or lies below it
Within(p, root) ==
    LET pc_ == PathComponents(p)
        rc == PathComponents(root)
    IN Len(rc) <= Len(pc_) /\ SubSeq(pc_, 1, Len(rc)) = rc

\* C5: every path argument (cwd, projectPath, path) of every dispatched tool
\* call lies in the task's working directory.
C5_AllPathsPinned ==
    \A i \in 1..Len(execs) :
        execs[i].found =>
            \A k \in {"cwd", "projectPath", "path"} :
                k \in DOMAIN execs[i].arguments =>
                    Within(execs[i].arguments[k], activeProjectPath)

Kinds(h) == {h[i] : i \in 1..Len(h)}
LoopHasRun == outcome \in {"completed", "exhausted", "threw"}

\* C6: the task loop never propagates an exception to start() or chat(),
\* whatever fails in it (a model call, a tool execution, the summarizer, the
\* write of the summary file): it ends only by completion or by exhaustion
\* of the iterations.
C6_LoopNeverThrows ==
    /\ outcome # "threw"
    /\ (pc = "idle" /\ LoopHasRun) =>
          \/ outcome = "completed" /\ isComplete
          \/ outcome = "exhausted" /\ ~isComplete /\ iteration = maxIterations

\* a loop has returned after an error turn and after a compaction
C6_Witness ==
    /\ pc = "idle"
    /\ LoopHasRun
    /\ {"error", "tokenlimit"} \subseteq Kinds(history)

\* C7: one run of the loop issues at most maxIterations model requests, an
\* iteration that ends in an empty response, an error turn or a compaction
\* counting as one; when every response is one tool call without the
\* completion phrase the loop issues exactly maxIterations requests and
\* returns with the warning, not an exception.
C7_IterationCeiling ==
    /\ requests <= maxIterations
    /\ requests = iteration
    /\ pc = "loopHead" => Len(history) = requests
    /\ (pc = "idle" /\ LoopHasRun /\ Kinds(history) \subseteq {"tool1"}) =>
          /\ requests = maxIterations
          /\ outcome = "exhausted"

\* three requests, each answered by one tool call, and the loop has returned
C7_Witness ==
    /\ pc = "idle"
    /\ outcome = "exhausted"
    /\ history = <<"tool1", "tool1", "tool1">>
    /\ requests = 3

\* C8: every start() or chat() eventually returns, provided every model
\* call, tool execution, summarizer call and backoff sleep completes.
C8_LoopReturns == (pc # "idle") ~> (pc = "idle")

\* the last backoff of a request, in a loop that has seen an empty response
\* and a failed request
C8_Witness ==
    /\ pc = "sleeping"
    /\ attempt = MAX_API_RETRIES - 1
    /\ "empty" \in Kinds(history)
    /\ Kinds(history) \cap {"error", "tokenlimit"} # {}

\* two characters are the same letter, in whatever case
SameLetter(a, b) ==
    \/ a = b
    \/ IndexIn(a, LowerLetters) > 0 /\ IndexIn(a, LowerLetters) = IndexIn(b, UpperLetters)
    \/ IndexIn(a, UpperLetters) > 0 /\ IndexIn(a, UpperLetters) = IndexIn(b, LowerLetters)
\* the text contains the completion phrase in some letter case
SaysComplete(segments) ==
    LET cs == ConcatChars(segments)
        phrase == Chars("TASK COMPLETE")
    IN \E k \in 0..(Len(cs) - Len(phrase)) :
          \A j \in 1..Len(phrase) : SameLetter(cs[k + j], phrase[j])

\* C9: if the free text of a model response contains the phrase TASK COMPLETE
\* in any letter case, the loop ends in that iteration and issues no further
\* model call.
C9_CompletionEndsLoop ==
    [][/\ SaysComplete(text') => (isComplete' /\ pc' = "loopHead")
       /\ SaysComplete(text) =>
             (pc' = "idle" /\ outcome' = "completed" /\ requests' = requests)]_vars

\* a response that says the phrase, not in capitals, in a later iteration
C9_Witness ==
    /\ pc = "loopHead"
    /\ SaysComplete(text)
    /\ ~Includes(ConcatChars(text), Chars("TASK COMPLETE"))
    /\ iteration >= 2

IsResponseKind(kind) == kind \notin {"error", "tokenlimit"}
RECURSIVE TrailingEmpty(_)
\* the number of empty responses at the end of a sequence of responses
TrailingEmpty(kinds) ==
    IF kinds = <<>> \/ Last(kinds) # "empty" THEN 0
    ELSE 1 + TrailingEmpty(SubSeq(kinds, 1, Len(kinds) - 1))

\* C10: when three model responses in a row are empty the loop ends at the
\* third, without a fourth model call; any non-empty response resets the
\* count to zero, so the loop ends through the empty-response rule only on
\* three empty responses in a row.
C10_EmptyResponseRule ==
    LET responses == SelectSeq(history, IsResponseKind)
    IN /\ TrailingEmpty(responses) <= 3
       /\ TrailingEmpty(responses) = 3 => (isComplete /\ pc \in {"loopHead", "idle"})
       /\ (responses # <<>> /\ Last(responses) # "empty") => consecutiveEmptyResponses = 0
       /\ (isComplete /\ history # <<>> /\ Last(history) = "empty") =>
             TrailingEmpty(responses) = 3

\* the loop has ended on its third empty response in a row
C10_Witness ==
    /\ pc = "idle"
    /\ outcome = "completed"
    /\ history = <<"empty", "empty", "empty">>


\* ------------------------------------------------------------------------
\* The retried model request (callAIWithRetry)
\* ------------------------------------------------------------------------
\* a request is under way or has just thrown: its locals are still there
InRequest == attempt > 0
\* the calls of callAI made by the request so far: the first one, and one
\* after every sleep
Invocations == IF InRequest THEN Len(sleeps) + 1 ELSE 0
\* the request has thrown to the loop
HasRaised == raised # NoError
\* every attempt allowed has been made and the last one failed transiently
AllAttemptsFailed ==
    HasRaised /\ Invocations = MAX_API_RETRIES /\ IsRetryable(attemptError)

\* C11: one retried model request invokes the model at most 5 times, and
\* when all 5 attempts failed with transient errors the error raised to the
\* loop is the error of the last attempt.
C11_AttemptCeiling ==
    /\ Invocations <= MAX_API_RETRIES
    /\ AllAttemptsFailed => raised = attemptError

\* five attempts failed transiently and the loop has caught the error of the
\* fifth
C11_Witness ==
    /\ AllAttemptsFailed
    /\ raised = E_Status
    /\ pc = "loopHead"
    /\ Last(conversation) = ErrorTurn(E_Status.message)

\* 2000 ms * 2^(N-1)
ExpectedDelay(n) == 2000 * 2^(n - 1)

\* C12: within one retried model request the delay slept after the N-th
\* consecutive transient failure (N < 5) is exactly 2000 ms * 2^(N-1), and
\* attempt N+1 is under way only after that delay has been slept.
C12_BackoffDelays ==
    /\ \A n \in 1..Len(sleeps) : sleeps[n] = ExpectedDelay(n)
    /\ pc = "sleeping" =>
          /\ IsRetryable(attemptError)
          /\ attempt < MAX_API_RETRIES
          /\ Len(sleeps) = attempt - 1
          /\ delayMs = ExpectedDelay(attempt)
    /\ pc = "calling" => Len(sleeps) = attempt - 1

\* the fifth attempt is under way after four failures and four sleeps
C12_Witness ==
    /\ pc = "calling"
    /\ attempt = MAX_API_RETRIES
    /\ sleeps = <<2000, 4000, 8000, 16000>>

\* C13: under persistent transient failure the delays slept within one
\* retried model request are 2s, 4s, 8s, 16s and 32s, five delays, before the
\* error is raised to the loop.
C13_FiveDelays ==
    AllAttemptsFailed => sleeps = <<2000, 4000, 8000, 16000, 32000>>

\* the latest attempt failed with an error that carries no transient marker
FailedFatally == attemptError # NoError /\ ~IsRetryable(attemptError)

\* C14: when an attempt of a retried model request fails with an error that
\* carries no transient marker, that error is thrown to the loop at once: no
\* attempt follows it and no delay is slept after it, however many attempts
\* remain.
C14_FatalErrorNotRetried ==
    FailedFatally =>
        /\ raised = attemptError
        /\ pc \notin {"calling", "sleeping"}
        /\ Len(sleeps) = attempt - 1

\* a third attempt, after two transient failures and two sleeps, failed
\* without a transient marker and the loop has caught that error
C14_Witness ==
    /\ FailedFatally
    /\ raised = E_BadRequest
    /\ attempt = 3
    /\ sleeps = <<2000, 4000>>
    /\ pc = "loopHead"
    /\ Last(conversation) = ErrorTurn(E_BadRequest.message)

\* ------------------------------------------------------------------------
\* Failing tools and unknown tools (executeTools)
\* ------------------------------------------------------------------------
\* the round has been appended: the last two turns are the model turn with
\* one call part per execution and the result turn with, at position i, the
\* name and the result of the i-th execution
RoundAppended ==
    /\ Len(conversation) >= 3
    /\ LET modelTurn == conversation[Len(conversation) - 1]
           resultTurn == conversation[Len(conversation)]
       IN /\ modelTurn.role = "model"
          /\ resultTurn.role = "user"
          /\ Len(modelTurn.parts) = Len(execs)
          /\ Len(resultTurn.parts) = Len(execs)
          /\ \A i \in 1..Len(execs) :
                /\ IsFunctionCall(modelTurn.parts[i])
                /\ modelTurn.parts[i].name = execs[i].name
                /\ resultTurn.parts[i] = ResponsePart(execs[i].name, execs[i].result)
SomeToolThrew == \E i \in 1..Len(execs) : execs[i].threw
IsKnownTool(name) == name \in ToolNames
SomeToolUnknown == \E i \in 1..Len(execs) : ~IsKnownTool(execs[i].name)

\* C15: when a tool's execute throws during a round, the result of that call
\* is "Error: " followed by the error message, the other calls of the round
\* have the results they would have had, the model turn and the result turn
\* are appended as after any round, and the loop is neither completed nor
\* left by an exception: it goes on with the while condition.
C15_ToolErrorContained ==
    /\ \A i \in 1..Len(execs) :
          (execs[i].status = "done" /\ IsKnownTool(execs[i].name)) =>
              execs[i].result = IF execs[i].threw
                                THEN <<"Error: ", ToolFailure>>
                                ELSE ToolOutput(execs[i].name, execs[i].arguments)
    /\ SomeToolThrew =>
          /\ pc \in {"tools", "loopHead"}
          /\ outcome = "running"
          /\ ~isComplete
          /\ pc = "loopHead" => RoundAppended

\* a round of two calls is appended whose second execute threw after the
\* first one had resolved
C15_Witness ==
    /\ pc = "loopHead"
    /\ Len(execs) = 2
    /\ ~execs[1].threw /\ execs[1].result = ToolOutput(execs[1].name, execs[1].arguments)
    /\ execs[2].threw /\ execs[2].order = 2
    /\ Last(conversation).parts[2].result = <<"Error: ", ToolFailure>>
    /\ iteration < maxIterations

\* C16: a call to a tool name that is not in the registry yields an error
\* string that names the tool, and no exception; every other call of the
\* round is executed all the same, and the result turn has one result per
\* call, in call order.
C16_UnknownToolContained ==
    /\ \A i \in 1..Len(execs) :
          ~IsKnownTool(execs[i].name) =>
              /\ execs[i].status = "done"
              /\ ~execs[i].threw
              /\ execs[i].result = <<"Error: Tool \"", execs[i].name, "\" not found">>
    /\ SomeToolUnknown =>
          /\ pc \in {"tools", "loopHead"}
          /\ outcome = "running"
          /\ pc = "loopHead" =>
                /\ RoundAppended
                /\ \A i \in 1..Len(execs) :
                      IsKnownTool(execs[i].name) =>
                          /\ execs[i].status = "done"
                          /\ execs[i].order > 0
                          /\ execs[i].result =
                                IF execs[i].threw
                                THEN <<"Error: ", ToolFailure>>
                                ELSE ToolOutput(execs[i].name, execs[i].arguments)

\* a round of three calls is appended whose second call named an unknown tool
C16_Witness ==
    /\ pc = "loopHead"
    /\ Len(execs) = 3
    /\ execs[2].name = "bogus_tool"
    /\ IsKnownTool(execs[1].name) /\ IsKnownTool(execs[3].name)
    /\ Last(conversation).parts[2].result = <<"Error: Tool \"", "bogus_tool", "\" not found">>
    /\ Last(conversation).parts[3].result = ToolOutput("read_file", [path |-> "/work/project/a.ts"])

\* ------------------------------------------------------------------------
\* Recovery from a context-length error (handleTokenLimitExceeded)
\* ------------------------------------------------------------------------
\* the message carries a context-length marker
IsContextLengthError(error) ==
    LET msg == ToLowerCase(Chars(error.message))
    IN \/ Includes(msg, Chars("context length"))
       \/ Includes(msg, Chars("too long"))
       \/ Includes(msg, Chars("maximum context"))
\* the request of this iteration failed with a context-length error
AfterContextError == HasRaised /\ IsContextLengthError(raised)
\* the conversation is the single turn built from the task prompt and the
\* summary of this compaction
Reseeded ==
    /\ summary # <<>>
    /\ conversation = <<UserText(originalTaskPrompt \o <<"\n\n## Previous Progress:\n">>
                                 \o summary
                                 \o <<"\n\nContinue from where you left off.">>)>>
\* summarizing threw and the conversation was truncated instead
Degraded ==
    /\ summary = <<>>
    /\ conversation # <<>>
    /\ Len(conversation) <= KEEP_RECENT_MESSAGES + 1
\* the error of this iteration was not turned into an error turn, and the
\* loop has not stopped: it is compacting or back at the while condition, or
\* it has returned because that was its last iteration
NoErrorTurnNoStop ==
    /\ pc \in {"summarizing", "saving", "loopHead", "idle"}
    /\ ~isComplete
    /\ outcome = IF pc = "idle" THEN "exhausted" ELSE "running"
    /\ pc = "idle" => iteration = maxIterations
    /\ \/ conversation = <<>>
       \/ Last(conversation) # UserText(<<"Error: ", raised.message, ". Try a different approach.">>)

\* C17 as stated: when a model request fails with a context-length error the
\* loop performs heavyweight compaction and continues with the next
\* iteration; no error turn is appended and the loop does not stop.
C17_ContextErrorCompacts ==
    AfterContextError =>
        /\ NoErrorTurnNoStop
        /\ pc = "loopHead" => Reseeded

\* C17, amended: when a model request fails with a context-length error the
\* loop enters heavyweight compaction and then continues with the while
\* condition, the conversation being reseeded from the summary or, when
\* building the summary threw, truncated to the first and the last 10 turns;
\* no error turn is appended and the loop does not stop.
C17_ContextErrorRecovered ==
    AfterContextError =>
        /\ NoErrorTurnNoStop
        /\ pc = "loopHead" => (Reseeded \/ Degraded)

\* a request failed with a context-length error after two tool rounds, the
\* conversation was reseeded, and the loop has iterations left
C17_Witness ==
    /\ AfterContextError
    /\ pc = "loopHead"
    /\ Reseeded
    /\ Kinds(history) = {"tool1", "tokenlimit"} \/ Kinds(history) = {"toolN", "tokenlimit"}
    /\ iteration < maxIterations

\* the segments of text from position from on start with the segments of part
StartsAt(segments, part, from) ==
    /\ from + Len(part) - 1 <= Len(segments)
    /\ SubSeq(segments, from, from + Len(part) - 1) = part
\* a heavyweight compaction has just been completed
JustCompacted ==
    /\ pc = "loopHead"
    /\ history # <<>> /\ Last(history) = "tokenlimit"
    /\ summary # <<>>

\* C18: after every heavyweight compaction the conversation is exactly one
\* user-role turn whose text contains, in this order, the task prompt that
\* start() recorded, the summary that was generated, and the instruction to
\* continue from where the agent left off.
C18_ReseedShape ==
    JustCompacted =>
        /\ Len(conversation) = 1
        /\ conversation[1].role = "user"
        /\ Len(conversation[1].parts) = 1
        /\ conversation[1].parts[1].kind = "text"
        /\ \E task \in AllTasks :
              /\ task.projectPath = activeProjectPath
              /\ originalTaskPrompt =
                    createTaskPrompt(task.prompt, task.projectPath, task.databaseUrl)
        /\ LET segments == conversation[1].parts[1].text
           IN \E i, j, k \in 1..Len(segments) :
                 /\ StartsAt(segments, originalTaskPrompt, i)
                 /\ i + Len(originalTaskPrompt) <= j
                 /\ StartsAt(segments, summary, j)
                 /\ j + Len(summary) <= k
                 /\ segments[k] = "\n\nContinue from where you left off."

\* a compaction with the generated summary is completed in a follow-up session
\* of a project whose task has a database URL
C18_Witness ==
    /\ JustCompacted
    /\ summary = GeneratedSummary
    /\ contextId = "Follow-up-Phase"
    /\ activeProjectPath = ShopTask.projectPath
    /\ Len(conversation) = 1

\* ------------------------------------------------------------------------
\* Lightweight compaction and the budget check
\* ------------------------------------------------------------------------
\* after is before, truncated as described: untouched up to 11 turns, else
\* 11 turns, the first one and the last 10 in their order
KeptTurns(before, after) ==
    IF Len(before) <= 11 THEN after = before
    ELSE /\ Len(after) = 11
         /\ after[1] = before[1]
         /\ \A i \in 1..10 : after[i + 1] = before[Len(before) - 10 + i]
\* the budget check of an iteration: from the while condition to the request
BudgetCheckStep == pc = "loopHead" /\ pc' = "calling"
\* the steps that run the lightweight compaction: a budget check over the
\* threshold, and a heavyweight compaction that threw
LightCompactionStep ==
    \/ BudgetCheckStep /\ lastTokenCount > 700000
    \/ pc = "summarizing" /\ pc' = "loopHead"

\* C19: lightweight compaction of a conversation of M turns leaves it
\* unchanged when M <= 11; when M > 11 the result has exactly 11 turns, the
\* original first turn followed by the original last 10 turns in their
\* order. Checked for the conversations of M = 0..MaxTurns distinct turns and
\* for every compaction the loop performs.
C19_TruncationShape ==
    /\ [](\A m \in 0..MaxTurns :
            KeptTurns([i \in 1..m |-> i], CompressConversation([i \in 1..m |-> i])))
    /\ [][LightCompactionStep => KeptTurns(conversation, conversation')]_vars

\* a budget check has just cut a conversation of more than 11 turns: the
\* request is out on 11 turns whose second turn is a result turn
C19_Witness ==
    /\ pc = "calling" /\ attempt = 1
    /\ lastTokenCount > 700000
    /\ Len(conversation) = 11
    /\ conversation[2].role = "user"
    /\ conversation[2].parts[1].kind = "functionResponse"

\* C20: the budget check before a model call changes the conversation only
\* when the last observed token count is strictly greater than 70% of the
\* 1,000,000-token ceiling; at or below it the conversation is the same
\* before and after the check.
C20_BudgetCheckFrame ==
    [][BudgetCheckStep =>
          /\ lastTokenCount <= 700000 => conversation' = conversation
          /\ conversation' # conversation => lastTokenCount * 100 > 70 * 1000000]_vars

\* the check has just run at exactly the threshold on a conversation of more
\* than 11 turns and left it whole
C20_Witness ==
    /\ pc = "calling" /\ attempt = 1
    /\ lastTokenCount = 700000
    /\ Len(conversation) > 11

\* ------------------------------------------------------------------------
\* The summary file, start() and chat()
\* ------------------------------------------------------------------------
\* start() has set up a task and enters the loop
StartStep == pc = "idle" /\ pc' = "loopHead" /\ contextId' = "Planning-Phase"
\* the summary file of the directory of the task that was started last
StoredSummary == disk[activeProjectPath]
\* the conversation is one user turn of one text part
IsSeed(conv) ==
    /\ Len(conv) = 1
    /\ conv[1].role = "user"
    /\ Len(conv[1].parts) = 1
    /\ conv[1].parts[1].kind = "text"

\* C21: a summary written by a heavyweight compaction is what the next
\* start() on the same working directory loads. The summary file of a
\* directory changes only when a compaction of a task in that directory saves
\* its summary, and then holds that summary; the seed turn of a started task
\* is its task prompt followed by the stored summary text verbatim, and the
\* task prompt alone when the directory has no summary file.
C21_SummaryReload ==
    [][/\ disk' # disk =>
             /\ pc = "saving"
             /\ summary # <<>>
             /\ disk' = [disk EXCEPT ![activeProjectPath] = summary]
       /\ StartStep =>
             /\ disk' = disk
             /\ IsSeed(conversation')
             /\ LET segments == conversation'[1].parts[1].text
                    prompt == originalTaskPrompt'
                    stored == disk[activeProjectPath']
                IN IF stored = <<>>
                   THEN segments = prompt
                   ELSE /\ StartsAt(segments, prompt, 1)
                        /\ \E j \in (Len(prompt) + 1)..Len(segments) :
                              StartsAt(segments, stored, j)]_vars

\* a second task has just been started in a directory where a compaction of
\* the first task stored the generated summary: the seed turn carries it
C21_Witness ==
    /\ pc = "loopHead" /\ iteration = 0 /\ contextId = "Planning-Phase"
    /\ sessionsLeft = 0
    /\ StoredSummary = GeneratedSummary
    /\ IsSeed(conversation)
    /\ \E j \in 1..Len(conversation[1].parts[1].text) :
          StartsAt(conversation[1].parts[1].text, GeneratedSummary, j)

\* the driver calls chat() on an agent whose working directory is not set
ChatBeforeStartStep ==
    /\ pc = "idle"
    /\ activeProjectPath = NoPath
    /\ activeProjectPath' = NoPath
    /\ sessionsLeft' = sessionsLeft - 1

\* C22: chat() on an agent on which start() has not set a working directory
\* fails with an error before anything else happens: no turn is appended to
\* the conversation, no loop is entered and no model call is issued.
C22_ChatBeforeStartRejected ==
    [][ChatBeforeStartStep =>
          /\ outcome' = "rejected"
          /\ conversation' = conversation
          /\ requests' = requests
          /\ pc' = "idle"]_vars

\* chat() has been rejected twice on a fresh agent
C22_Witness ==
    /\ outcome = "rejected"
    /\ activeProjectPath = NoPath
    /\ sessionsLeft = DriverSessions(profile) - 2
    /\ conversation = <<>>
    /\ requests = 0
    /\ pc = "idle"

\* C23: the conversation is non-empty at every model call and at every point
\* while a task loop is running, whatever appends, lightweight truncations
\* and heavyweight reseeds have happened.
C23_ConversationNonEmpty ==
    pc # "idle" => Len(conversation) >= 1

\* a request is out in a follow-up loop right after a heavyweight reseed
C23_Witness ==
    /\ pc = "calling"
    /\ contextId = "Follow-up-Phase"
    /\ history # <<>> /\ Last(history) = "tokenlimit"
    /\ Len(conversation) = 1

\* ------------------------------------------------------------------------
\* What a round leaves in the conversation
\* ------------------------------------------------------------------------
\* C24: the model turn appended after a tool round carries the tool-call
\* parts exactly as the model returned them, with the argument values the
\* model supplied, also when cwd or projectPath was overwritten for the
\* execution of the call.
C24_ModelTurnVerbatim ==
    (pc = "loopHead" /\ execs # <<>>) =>
        LET modelTurn == conversation[Len(conversation) - 1]
        IN /\ Len(modelTurn.parts) = Len(execs)
           /\ \A i \in 1..Len(execs) :
                 /\ IsFunctionCall(modelTurn.parts[i])
                 /\ CallName(modelTurn.parts[i]) = execs[i].name
                 /\ CallArguments(modelTurn.parts[i]) = execs[i].supplied

\* C25: after any sequence of tool rounds and lightweight compactions, every
\* user-role turn that carries tool results is immediately preceded by the
\* model-role turn whose tool calls it answers.
C25_ResultsFollowCalls ==
    \A t \in 1..Len(conversation) :
        (conversation[t].role = "user" /\ ResultsOf(conversation[t]) # <<>>) =>
            /\ t > 1
            /\ conversation[t - 1].role = "model"
            /\ LET calls == CallsOf(conversation[t - 1])
                   answers == ResultsOf(conversation[t])
               IN /\ Len(calls) = Len(answers)
                  /\ \A i \in 1..Len(calls) : answers[i].name = CallName(calls[i])

\* C26: every command run by the exec_command tool during a task executes
\* with its working directory equal to the working directory of the task,
\* also when the call of the model has no cwd argument.
C26_ExecInWorkingDirectory ==
    \A i \in 1..Len(execs) :
        (execs[i].name = "exec_command" /\ execs[i].status = "done") =>
            execs[i].ranIn = activeProjectPath

\* ------------------------------------------------------------------------
\* How the loop classifies the error of a failed request
\* ------------------------------------------------------------------------
\* the turn that explains an error to the model
ExplanatoryTurn(error) == UserText(<<"Error: ", error.message, ". Try a different approach.">>)

\* C27: a failed model request is handled by heavyweight compaction only if
\* its error message carries a context-length, too-long or maximum-context
\* marker; an error without such a marker gets an explanatory error turn
\* instead.
C27_OnlyContextErrorsCompact ==
    (HasRaised /\ ~IsContextLengthError(raised)) =>
        /\ pc \notin {"summarizing", "saving"}
        /\ history # <<>> /\ Last(history) = "error"
        /\ pc = "loopHead" => Last(conversation) = ExplanatoryTurn(raised)

\* the fifth attempt of a request fails with a transient error
RetriesExhaustedStep ==
    /\ pc = "calling"
    /\ Len(sleeps) = MAX_API_RETRIES - 1
    /\ raised' # NoError
    /\ IsRetryable(raised')

\* C28: when all retry attempts of a model request fail with transient
\* errors, the loop appends exactly one explanatory user turn, runs no
\* compaction, and continues with the next iteration.
C28_ExhaustedRetriesErrorTurn ==
    [][RetriesExhaustedStep =>
          /\ conversation' = Append(conversation, ExplanatoryTurn(raised'))
          /\ pc' = "loopHead"
          /\ ~isComplete']_vars

\* ------------------------------------------------------------------------
\* Empty responses and failed requests; completion with tool calls
\* ------------------------------------------------------------------------
\* the loop has been ended by the empty-response rule
EndedByEmptyRule == isComplete /\ history # <<>> /\ Last(history) = "empty"
\* the last three entries of a sequence are empty responses
LastThreeEmpty(kinds) ==
    /\ Len(kinds) >= 3
    /\ \A i \in (Len(kinds) - 2)..Len(kinds) : kinds[i] = "empty"

\* C29 as stated: the loop ends through the empty-response rule only if the
\* three most recent model requests of the loop all returned empty responses;
\* a failed request between empty responses keeps the count from reaching
\* three.
C29_EmptyRuleCountsRequests ==
    EndedByEmptyRule => LastThreeEmpty(history)

\* C29, amended: the loop ends through the empty-response rule only if the
\* three most recent model responses of the loop were empty. The count is the
\* number of empty responses since the last non-empty response; a failed
\* request (error turn or compaction) between them returns no response and
\* leaves the count as it is.
C29_EmptyRuleCountsResponses ==
    LET responses == SelectSeq(history, IsResponseKind)
    IN /\ consecutiveEmptyResponses = TrailingEmpty(responses)
       /\ EndedByEmptyRule => LastThreeEmpty(responses)

\* the loop has ended on its third empty response, a failed request having
\* come between the second and the third
C29_Witness ==
    /\ EndedByEmptyRule
    /\ history = <<"empty", "empty", "error", "empty">>
    /\ pc = "idle"
    /\ outcome = "completed"

\* a response arrives whose text says the completion phrase and which holds
\* tool calls
CompleteWithCallsStep ==
    /\ pc = "calling"
    /\ pc' \notin {"calling", "sleeping"}
    /\ SaysComplete(text')
    /\ functionResponseParts' # <<>>

\* C30: when a model response contains both the completion phrase in its text
\* and one or more tool calls, the loop ends without executing any of those
\* calls and without appending any turn: the conversation is the same as
\* before that response, also when the loop has returned.
C30_CompletionSkipsTools ==
    [][/\ CompleteWithCallsStep =>
             /\ conversation' = conversation
             /\ execs' = execs
             /\ \A i \in 1..Len(execs') : execs'[i].status = "done"
             /\ isComplete'
             /\ pc' = "loopHead"
       /\ (pc = "loopHead" /\ isComplete /\ functionResponseParts # <<>>) =>
             /\ pc' = "idle"
             /\ outcome' = "completed"
             /\ conversation' = conversation
             /\ requests' = requests]_vars

\* the second response of a loop said the phrase and called a tool: the loop
\* is about to return and nothing has been executed for it
C30_Witness ==
    /\ pc = "loopHead"
    /\ isComplete
    /\ iteration = 2
    /\ SaysComplete(text)
    /\ Len(functionResponseParts) = 1
    /\ CallName(functionResponseParts[1]) = "exec_command"
    /\ execs = <<>>

\* ------------------------------------------------------------------------
\* Text-only responses
\* ------------------------------------------------------------------------
\* the texts of the provider double that mention the completion phrase
\* without declaring the task finished
Mentions == {<<"Not TASK COMPLETE yet">>}

\* C31: the completion detector does not fire on a model text that only
\* mentions or quotes the completion phrase without declaring the task
\* finished: such a response does not end the loop.
C31_MentionDoesNotEnd ==
    (pc = "loopHead" /\ history # <<>> /\ IsResponseKind(Last(history))
        /\ text \in Mentions) => ~isComplete

\* a response arrives that has text, no tool calls and no completion phrase
TextOnlyStep ==
    /\ pc = "calling"
    /\ pc' \notin {"calling", "sleeping"}
    /\ ConcatChars(text') # <<>>
    /\ functionResponseParts' = <<>>
    /\ ~SaysComplete(text')

\* C32: for a response with text, no tool calls and no completion phrase: if
\* the finish reason is the natural stop the loop ends in that iteration with
\* nothing appended; otherwise exactly one user turn with the continue
\* instruction is appended, the text of the model is not appended, and the
\* loop goes on with the while condition.
C32_TextOnlyResponse ==
    [][/\ TextOnlyStep =>
             /\ pc' = "loopHead"
             /\ IF finishReason' = "STOP"
                THEN isComplete' /\ conversation' = conversation
                ELSE /\ ~isComplete'
                     /\ conversation' = Append(conversation,
                            [role |-> "user",
                             parts |-> <<[kind |-> "text",
                                          text |-> <<"Continue with the task. Use tools as needed. When finished, say \"TASK COMPLETE\".">>]>>])
       /\ (pc = "loopHead" /\ isComplete /\ finishReason = "STOP" /\ ~SaysComplete(text)
              /\ ConcatChars(text) # <<>>) =>
             /\ pc' = "idle"
             /\ outcome' = "completed"
             /\ conversation' = conversation
             /\ requests' = requests]_vars

\* a text-only response that was cut off has been answered with the continue
\* instruction and the loop has iterations left
C32_Witness ==
    /\ pc = "loopHead"
    /\ ~isComplete
    /\ finishReason = "MAX_TOKENS"
    /\ text = <<"Working on the layout.">>
    /\ Last(conversation) = UserText(<<NudgeText>>)
    /\ iteration < maxIterations

\* ------------------------------------------------------------------------
\* What compaction keeps of the task and of the follow-up request
\* ------------------------------------------------------------------------
\* the conversation holds the turn that chat() pushed for a message
HoldsMessage(conv) ==
    \E t \in 1..Len(conv), message \in Messages : conv[t] = UserText(<<message>>)

\* C33: during a follow-up loop started by chat(message), every model call of
\* that loop is made with a conversation that still contains the turn that
\* holds the message.
C33_FollowUpRequestKept ==
    (contextId = "Follow-up-Phase" /\ pc = "calling") => HoldsMessage(conversation)

\* C34: from the moment start() seeds the conversation until the agent is
\* started again, turn 0 of the conversation is a user-role turn of one text
\* part whose text begins with the task prompt of that start(), whatever
\* appends, lightweight truncations and heavyweight reseeds have happened.
C34_FirstTurnAnchored ==
    activeProjectPath # NoPath =>
        /\ Len(conversation) >= 1
        /\ conversation[1].role = "user"
        /\ Len(conversation[1].parts) = 1
        /\ conversation[1].parts[1].kind = "text"
        /\ \E task \in AllTasks :
              /\ task.projectPath = activeProjectPath
              /\ originalTaskPrompt =
                    createTaskPrompt(task.prompt, task.projectPath, task.databaseUrl)
              /\ StartsAt(conversation[1].parts[1].text,
                          createTaskPrompt(task.prompt, task.projectPath, task.databaseUrl), 1)

\* a follow-up loop is calling the model on a conversation that was reseeded
\* in this loop and has grown by a tool round since
C34_Witness ==
    /\ pc = "calling"
    /\ contextId = "Follow-up-Phase"
    /\ "tokenlimit" \in Kinds(history)
    /\ IsToolRound(Last(history))
    /\ Len(conversation) = 3

\* C35: after every successful model request, lastTokenCount equals the
\* prompt token count the provider reported for that request.
C35_CountFollowsReport ==
    [][\A response \in AllResponses :
          ModelResponds(response) => lastTokenCount' = response.promptTokenCount]_vars

\* the loop of a start() is running and the model has not answered it yet
BeforeFirstResponse ==
    /\ contextId = "Planning-Phase"
    /\ pc # "idle"
    /\ SelectSeq(history, IsResponseKind) = <<>>

\* C36: the budget state is per task: from the beginning of every start(), a
\* second start() on the same agent included, until the first successful
\* model response of that task, lastTokenCount is 0, and so the budget check
\* of that stretch leaves the conversation as it is.
C36_BudgetStartsAtZero ==
    /\ [](BeforeFirstResponse => lastTokenCount = 0)
    /\ [][(BeforeFirstResponse /\ BudgetCheckStep) => conversation' = conversation]_vars

\* the number of activations of executeTaskLoop that have not returned
LoopsInFlight ==
    (IF pc # "idle" THEN 1 ELSE 0) + Len(suspended)

\* C37: at most one task loop runs on an agent instance at any time: a
\* start() or chat() invoked while another is in flight does not run its
\* loop concurrently with it.
C37_OneLoopAtATime == LoopsInFlight <= 1

\* the summarizer call of a heavyweight compaction ends without a text
SummarizerFailsStep ==
    \E result \in {"empty", "fail"} : SummarizerReturns(result)
\* the write of the summary file fails
WriteFailsStep == SaveSummary(FALSE)
\* the summary is the heuristic one
IsFallback(segments) ==
    segments # <<>> /\ segments[1] = "## Progress Summary (fallback)\n\n"

\* C38 as stated: when the summarization path of a heavyweight compaction
\* fails (the summarizer call fails, or the summary cannot be written to
\* disk), the conversation is shrunk by lightweight truncation instead of
\* being reseeded, and the loop continues.
C38_FailureTruncates ==
    [][(SummarizerFailsStep \/ WriteFailsStep) =>
          /\ pc' = "loopHead"
          /\ KeptTurns(conversation, conversation')]_vars

\* C38, amended: a summarizer call that fails or returns no text is replaced
\* by the heuristic summary, and a summary file that cannot be written is
\* passed over: in both cases the conversation is reseeded from the summary
\* and the loop continues. The conversation is shrunk by lightweight
\* truncation instead only when the heuristic summary cannot be built (a
\* recorded write, create or exec call without arguments), and the loop
\* continues then too.
C38_FailureStillReseeds ==
    [][/\ SummarizerFailsStep =>
            IF FallbackThrows(conversation)
            THEN /\ pc' = "loopHead"
                 /\ KeptTurns(conversation, conversation')
                 /\ summary' = <<>>
            ELSE /\ pc' = "saving"
                 /\ conversation' = conversation
                 /\ IsFallback(summary')
       /\ WriteFailsStep =>
            /\ pc' = "loopHead"
            /\ Reseeded'
            /\ disk' = disk]_vars

\* a heavyweight compaction whose summarizer call gave no text and whose
\* summary file was not written has reseeded the conversation
C38_Witness ==
    /\ pc = "loopHead"
    /\ history # <<>> /\ Last(history) = "tokenlimit"
    /\ IsFallback(summary)
    /\ Reseeded
    /\ disk[activeProjectPath] = <<>>

\* ------------------------------------------------------------------------
\* The heuristic summary
\* ------------------------------------------------------------------------
\* a recorded call of one of the three tools the heuristic summary lists
IsRecordedCall(p) ==
    /\ p.kind = "functionCall"
    /\ "name" \in DOMAIN p
    /\ p.name \in {"write_file", "create_directory", "exec_command"}
RecordedCalls(conv) == SelectSeq(AllParts(conv), IsRecordedCall)
\* the entry of a recorded call: its name and its path or command argument
EntryOf(call) ==
    <<"- ", call.name, ": ",
      IF "path" \in DOMAIN call.args THEN call.args.path ELSE call.args.command>>
\* the number of entries of a heuristic summary: the header, then entries of
\* four segments with a line break between two of them
EntryCount(segments) == Len(segments) \div 5
EntryAt(segments, j) == SubSeq(segments, 5 * j - 3, 5 * j)
\* where the entry first occurs among the calls (0: nowhere)
FirstOccurrence(calls, entry) ==
    IF \E c \in 1..Len(calls) : EntryOf(calls[c]) = entry
    THEN CHOOSE c \in 1..Len(calls) :
             /\ EntryOf(calls[c]) = entry
             /\ \A b \in 1..(c - 1) : EntryOf(calls[b]) # entry
    ELSE 0
\* segments is the heuristic summary of conv as described: the header and at
\* most 30 entries, each the entry of a recorded call, no entry twice, in the
\* order in which they first occur, none skipped
IsHeuristicOf(conv, segments) ==
    LET calls == RecordedCalls(conv)
        k == EntryCount(segments)
    IN /\ IsFallback(segments)
       /\ Len(segments) = IF k = 0 THEN 1 ELSE 5 * k
       /\ k <= 30
       /\ \A j \in 1..k : FirstOccurrence(calls, EntryAt(segments, j)) > 0
       /\ \A j \in 1..(k - 1) : segments[5 * j + 1] = "\n"
       /\ \A i, j \in 1..k :
             i < j => FirstOccurrence(calls, EntryAt(segments, i))
                        < FirstOccurrence(calls, EntryAt(segments, j))
       /\ \A c \in 1..Len(calls) :
             \/ \E j \in 1..k : EntryAt(segments, j) = EntryOf(calls[c])
             \/ /\ k = 30
                /\ FirstOccurrence(calls, EntryAt(segments, 30)) < c

SampleTools == <<"write_file", "create_directory", "exec_command">>
SamplePaths ==
    <<"/f0", "/f1", "/f2", "/f3", "/f4", "/f5", "/f6", "/f7", "/f8", "/f9", "/f10", "/f11">>
\* the i-th call of a sample conversation: every seventh one reads a file,
\* calls 4 to 6 repeat calls 1 to 3, and the others run through 36 different
\* entries and then repeat them
SampleCall(i) ==
    LET k == IF i <= 6 THEN (i - 1) % 3 ELSE (i - 1) % 36
        tool == SampleTools[(k % 3) + 1]
        target == SamplePaths[(k \div 3) + 1]
    IN IF i % 7 = 0 THEN CallPart("read_file", [path |-> target])
       ELSE IF tool = "exec_command" THEN CallPart(tool, [command |-> target])
       ELSE CallPart(tool, [path |-> target])
\* a conversation that records n calls, in turns of 4 calls
SampleConversation(n) ==
    <<UserText(<<"BUILD: ", "Build a blog">>)>>
    \o [t \in 1..((n + 3) \div 4) |->
          [role |-> "model",
           parts |-> [i \in 1..(IF 4 * t <= n THEN 4 ELSE n - 4 * (t - 1)) |->
                         SampleCall(4 * (t - 1) + i)]]]
HeuristicOnSamples ==
    \A n \in 0..MaxCalls :
        IsHeuristicOf(SampleConversation(n), FallbackSummary(SampleConversation(n)))

\* C39: when the model call of the summarizer fails or returns no text, the
\* summary that is saved and that the conversation is reseeded from is the
\* heuristic one: built only from the path or command arguments of the
\* write_file, create_directory and exec_command calls recorded in the
\* conversation, without duplicates, in first-occurrence order, and with at
\* most 30 entries. Checked for the conversations of 0..MaxCalls calls and
\* for every heavyweight compaction the loop performs.
C39_HeuristicSummary ==
    /\ []HeuristicOnSamples
    /\ [][/\ (SummarizerFailsStep /\ pc' = "saving") =>
                 IsHeuristicOf(conversation, summary')
          /\ (pc = "saving" /\ pc' = "loopHead") =>
                 /\ Reseeded'
                 /\ summary' = summary
                 /\ disk'[activeProjectPath] \in {disk[activeProjectPath], summary}]_vars

\* the summarizer call gave no text on a conversation that records the same
\* command twice and a file write: the summary about to be saved has two
\* entries
C39_Witness ==
    /\ pc = "saving"
    /\ IsFallback(summary)
    /\ EntryCount(summary) = 2
    /\ Len(RecordedCalls(conversation)) >= 3
====
